---------------------------- MODULE Spec2Model ----------------------------
(***************************************************************************)
(* Move-quality analysis of chess-deng (src/game_analyser.py):             *)
(*   classify, analyze_single_game, compute_accuracy, and main, which      *)
(*   calls analyze_single_game and then compute_accuracy on its result.    *)
(* Also the analyse-game view (src/views/analyse_game.py), which runs the  *)
(* two on the game held in the session, and the monthly download loop of   *)
(* src/fetch_games.py.                                                     *)
(*                                                                         *)
(* Numbers.  The engine answers in integer centipawns; the code divides by *)
(* 100.0 to get pawns.  The model keeps every evaluation and every delta   *)
(* as an integer number of ten-thousandths of a pawn (0.30 pawn = 3000),   *)
(* so cp / 100.0 is cp * 100 and the spec's boundary values (0.2999,       *)
(* -0.0501) are integers.  Accuracy is an exact fraction.                  *)
(***************************************************************************)
EXTENDS Integers, Sequences, FiniteSets, TLC

VARIABLES
    pc,          \* control location of main / analyze_single_game
    engine,      \* the engine process: "none", "live" or "quit"
    pgn_str,     \* argument: the PGN text
    me_white,    \* argument: the tracked player is White
    game,        \* game.mainline_moves(), as parsed by read_game
    board,       \* the replay board: side to move and plies pushed
    idx,         \* position of the for loop in game (1-based)
    is_my_move,  \* local of the loop body
    eval_before, \* local of the loop body
    eval_after,  \* local of the loop body
    records,     \* local list of record dicts
    ret,         \* value returned by analyze_single_game
    exc,         \* exception that left analyze_single_game, "none" if none
    acc_out,     \* outcome of compute_accuracy(df_moves) in the caller
    eval_drop,   \* argument of a direct classify call
    category,    \* result of a direct classify call
    appended,    \* history: loop positions whose iteration appended a record
    evalFailed,  \* history: loop position whose analyse request raised, else 0
    info_before, \* local of the loop body: the engine's answer and who was to move
    info_after,  \* local of the loop body
    pid,         \* the engine process behind the local engine, 0 if none
    spawned,     \* operating system: engine processes started so far
    inflight,    \* analyse requests sent and not yet answered
    reqs,        \* history: the analyse requests of this call, in order
    answered,    \* history: the engine's two answers behind each record
    earlier,     \* history: how the earlier calls of this session ended
    peer,        \* a second call of analyze_single_game running concurrently
    session_state, \* st.session_state of the analyse-game view
    hist,        \* history: the runs of the view behind what it holds
    fetch        \* fetch_games_for_user: its loop, the files and the requests

vars == <<pc, engine, pgn_str, me_white, game, board, idx, is_my_move,
          eval_before, eval_after, records, ret, exc, acc_out, eval_drop,
          category, appended, evalFailed, info_before, info_after, pid,
          spawned, inflight, reqs, answered, earlier, peer, session_state,
          hist, fetch>>

runVars == <<engine, pgn_str, me_white, game, board, idx, is_my_move,
             eval_before, eval_after, records, ret, exc, appended, evalFailed,
             info_before, info_after, pid, spawned, inflight, reqs, answered,
             earlier, peer>>

----------------------------------------------------------------------------
(* Bounds of the model *)

MaxPlies == 5

MaxRows == 3

MaxDrop == 3200

MaxRunPlies == 2

MaxRuns == 2

MaxMonths == 3

MaxFetchRuns == 2

(* Program constants *)

MateScore == 10000

----------------------------------------------------------------------------
(* chess colours and engine scores *)

WHITE == "white"

BLACK == "black"

Other(c) == IF c = WHITE THEN BLACK ELSE WHITE

Cp(v) == [k |-> "cp", v |-> v]

Mate(n) == [k |-> "mate", v |-> n]

MateGiven == [k |-> "given", v |-> 0]

\* Score.__neg__: Cp(-v), Mate(-n); the mated side's Mate(0) negates to MateGiven
Neg(s) ==
    CASE s.k = "cp" -> Cp(0 - s.v)
      [] s.k = "mate" /\ s.v # 0 -> Mate(0 - s.v)
      [] s.k = "mate" /\ s.v = 0 -> MateGiven
      [] OTHER -> Mate(0)

\* PovScore.pov(color): the relative score seen from color
Pov(rel, turn, color) == IF turn = color THEN rel ELSE Neg(rel)

\* mutant: the mate distance is added, not subtracted
ScoreInt_plus(s) ==
    CASE s.k = "cp" -> s.v
      [] s.k = "mate" /\ s.v > 0 -> MateScore + s.v
      [] s.k = "mate" /\ s.v <= 0 -> (0 - MateScore) + s.v
      [] OTHER -> MateScore

\* Score.score(mate_score=10000): centipawns, a mate in n as +-(mate_score - n)
ScoreInt(s) ==
    CASE s.k = "cp" -> s.v
      [] s.k = "mate" /\ s.v > 0 -> MateScore - s.v
      [] s.k = "mate" /\ s.v <= 0 -> (0 - MateScore) - s.v
      [] OTHER -> MateScore

\* mutant: always White's point of view
EvalOf_white(rel, turn, meWhite) == ScoreInt(Pov(rel, turn, WHITE)) * 100

\* info["score"].pov(WHITE if me_white else BLACK).score(mate_score=10000) / 100.0
EvalOf(rel, turn, meWhite) ==
    ScoreInt(Pov(rel, turn, IF meWhite THEN WHITE ELSE BLACK)) * 100

\* what engine.analyse may answer, relative to the side to move
EngineScores == {Cp(0 - 40), Cp(0), Cp(40), Mate(2)}

----------------------------------------------------------------------------
(* classify *)

\* mutant: the bands of inaccuracy and mistake change places
classify_swapped(d) ==
    IF d >= 3000 THEN "brilliant"
    ELSE IF d >= 1000 THEN "great"
    ELSE IF d >= 0 - 500 THEN "good"
    ELSE IF d >= 0 - 1500 THEN "mistake"
    ELSE IF d >= 0 - 3000 THEN "inaccuracy"
    ELSE "blunder"

classify_strict(d) ==
    IF d > 3000 THEN "brilliant"
    ELSE IF d > 1000 THEN "great"
    ELSE IF d > 0 - 500 THEN "good"
    ELSE IF d > 0 - 1500 THEN "inaccuracy"
    ELSE IF d > 0 - 3000 THEN "mistake"
    ELSE "blunder"

classify(d) ==
    IF d >= 3000 THEN "brilliant"
    ELSE IF d >= 1000 THEN "great"
    ELSE IF d >= 0 - 500 THEN "good"
    ELSE IF d >= 0 - 1500 THEN "inaccuracy"
    ELSE IF d >= 0 - 3000 THEN "mistake"
    ELSE "blunder"

----------------------------------------------------------------------------
(* pandas frames and compute_accuracy *)

RecordColumns == {"eval_before", "eval_after", "eval_drop", "category"}

NoFrame == [kind |-> "none", columns |-> {}, rows |-> <<>>]

\* pd.DataFrame(records): the columns are the keys of the dicts, so a frame
\* made from an empty list has no column at all
DataFrame(recs) ==
    [kind |-> "frame",
     columns |-> IF recs = <<>> THEN {} ELSE RecordColumns,
     rows |-> recs]

\* df[df["eval_drop"] < 0]
Losses(rows) == SelectSeq(rows, LAMBDA r : r.eval_drop < 0)

Abs(x) == IF x < 0 THEN 0 - x ELSE x

RECURSIVE AbsSum(_)
\* ["eval_drop"].abs().sum(), the numerator of .mean()
AbsSum(rows) ==
    IF rows = <<>> THEN 0 ELSE Abs(Head(rows).eval_drop) + AbsSum(Tail(rows))

RECURSIVE PlainSum(_)
PlainSum(rows) ==
    IF rows = <<>> THEN 0 ELSE Head(rows).eval_drop + PlainSum(Tail(rows))

NoOutcome == [kind |-> "none", num |-> 0, cnt |-> 1, rating |-> 0]

KeyError == [kind |-> "KeyError", num |-> 0, cnt |-> 1, rating |-> 0]

\* mutant: round() in place of int()
Outcome_round(num, cnt) ==
    [kind |-> "ok", num |-> num, cnt |-> cnt,
     rating |-> 200 + (2 * num + cnt * 500) \div (cnt * 1000)]

\* (accuracy, rating_equiv) with accuracy = num / (cnt * 10000), kept as an
\* exact fraction, and rating_equiv = int(accuracy * 20 + 200), which is
\* 200 + the whole part of num * 20 / (cnt * 10000)
Outcome(num, cnt) ==
    [kind |-> "ok", num |-> num, cnt |-> cnt,
     rating |-> 200 + num \div (cnt * 500)]

\* mutant: the mean is taken over every row, not only the losing ones
compute_accuracy_all(df) ==
    IF "eval_drop" \notin df.columns THEN KeyError
    ELSE LET n == Len(df.rows)
             s == AbsSum(df.rows)
             cnt == IF n = 0 THEN 1 ELSE n
             num == 100 * cnt * 10000 - 15 * s
         IN  IF num < 0 THEN Outcome(0, cnt) ELSE Outcome(num, cnt)

\* mutant: max(0, ...) is dropped
compute_accuracy_noclamp(df) ==
    IF "eval_drop" \notin df.columns THEN KeyError
    ELSE LET neg == Losses(df.rows)
             n == Len(neg)
             s == AbsSum(neg)
             cnt == IF n = 0 THEN 1 ELSE n
             num == 100 * cnt * 10000 - 15 * s
         IN  Outcome(num, cnt)

\* mutant: .abs() is dropped
compute_accuracy_noabs(df) ==
    IF "eval_drop" \notin df.columns THEN KeyError
    ELSE LET neg == Losses(df.rows)
             n == Len(neg)
             s == PlainSum(neg)
             cnt == IF n = 0 THEN 1 ELSE n
             num == 100 * cnt * 10000 - 15 * s
         IN  IF num < 0 THEN Outcome(0, cnt) ELSE Outcome(num, cnt)

\* avg_loss = s / n ten-thousandths of a pawn = s / (n * 10000) pawns, and 0
\* when the mean of no rows is NaN (then s = 0 and cnt = 1 give the same);
\* accuracy = max(0, 100 - avg_loss * 15) = max(0, num / (cnt * 10000))
compute_accuracy(df) ==
    IF "eval_drop" \notin df.columns THEN KeyError
    ELSE LET neg == Losses(df.rows)
             n == Len(neg)
             s == AbsSum(neg)
             cnt == IF n = 0 THEN 1 ELSE n
             num == 100 * cnt * 10000 - 15 * s
         IN  IF num < 0 THEN Outcome(0, cnt) ELSE Outcome(num, cnt)

----------------------------------------------------------------------------
(* PGN text and the replay board *)

NoGame == [hasGame |-> FALSE, turn |-> WHITE, tokens |-> <<>>]

\* A PGN: whether it holds a game at all, the side to move of its starting
\* position, and its move tokens, each legal or not where it stands
PGNs ==
    {NoGame} \cup
    {[hasGame |-> TRUE, turn |-> t, tokens |-> ts] :
        t \in {WHITE, BLACK},
        ts \in UNION {[1..n -> {"legal", "illegal"}] : n \in 0..MaxPlies}}

RECURSIVE LegalPrefix(_)
\* chess.pgn.read_game: an illegal move is put in game.errors and the rest of
\* the line is skipped, so the mainline is the moves before the first illegal one
LegalPrefix(tokens) ==
    IF tokens = <<>> \/ Head(tokens) = "illegal" THEN <<>>
    ELSE <<Head(tokens)>> \o LegalPrefix(Tail(tokens))

NoBoard == [turn |-> WHITE, ply |-> 0]

\* mutant: the colour argument is ignored
IsMyMove_white(side_to_move, meWhite) == side_to_move = WHITE

IsMyMove(side_to_move, meWhite) ==
    \/ side_to_move = WHITE /\ meWhite
    \/ side_to_move = BLACK /\ ~meWhite

----------------------------------------------------------------------------
(* analyze_single_game *)

\* info["score"] before any answer
NoInfo == [relative |-> Cp(0), turn |-> "none"]

\* the frame of a concurrent call that has not run yet
PeerFresh(p, w) ==
    [pc |-> "start", engine |-> "none", pid |-> 0, pgn_str |-> p,
     me_white |-> w, game |-> <<>>, board |-> NoBoard, idx |-> 0,
     is_my_move |-> FALSE, eval_before |-> 0, eval_after |-> 0,
     info_before |-> NoInfo, info_after |-> NoInfo, records |-> <<>>,
     ret |-> NoFrame, exc |-> "none", reqs |-> <<>>, answered |-> <<>>,
     appended |-> <<>>]

\* no concurrent call
NoPeer == [PeerFresh(NoGame, TRUE) EXCEPT !.pc = "absent"]

\* fetch_games_for_user is not running
NoFetch ==
    [pc |-> "absent", run |-> 0, last |-> 0, month |-> 0, files |-> <<>>,
     sent |-> <<>>, wrote |-> {}, before |-> <<>>]

\* "analysis_results" not in st.session_state
NoResults ==
    [df_moves |-> NoFrame, accuracy |-> [num |-> 0, cnt |-> 1],
     rating_equiv |-> 0, player |-> "none"]

\* the view is not open: the session holds the landing page and nothing else
NoSession ==
    [page |-> "landing", game_data |-> NoGame, analysis_results |-> NoResults]

NoHist ==
    [atStart |-> NoSession, resultsOf |-> NoGame, lastRun |-> "none"]

\* the state of a call that has not run yet, for the arguments p and w
Fresh(p, w) ==
    /\ pc = "start"
    /\ engine = "none"
    /\ pgn_str = p
    /\ me_white = w
    /\ game = <<>>
    /\ board = NoBoard
    /\ idx = 0
    /\ is_my_move = FALSE
    /\ eval_before = 0
    /\ eval_after = 0
    /\ records = <<>>
    /\ ret = NoFrame
    /\ exc = "none"
    /\ acc_out = NoOutcome
    /\ eval_drop = 0
    /\ category = "none"
    /\ appended = <<>>
    /\ evalFailed = 0
    /\ info_before = NoInfo
    /\ info_after = NoInfo
    /\ pid = 0
    /\ spawned = 0
    /\ inflight = 0
    /\ reqs = <<>>
    /\ answered = <<>>
    /\ earlier = <<>>
    /\ peer = NoPeer
    /\ session_state = NoSession
    /\ hist = NoHist
    /\ fetch = NoFetch

Init == \E p \in PGNs : \E w \in BOOLEAN : Fresh(p, w)

\* an exception leaves analyze_single_game: nothing is returned, and nothing
\* on the way out touches the engine
Raise(kind) ==
    /\ pc' = "raised"
    /\ exc' = kind
    /\ UNCHANGED <<engine, ret>>

\* mutant: one engine process, started once, serves every call
NewPid_shared == IF spawned = 0 THEN spawned + 1 ELSE spawned

\* popen_uci spawns a process of its own for the call
NewPid == spawned + 1

\* mutant: the failure to start is swallowed and the call goes on
Popen_swallow ==
    /\ pc = "start"
    /\ \/ /\ engine' = "live"
          /\ spawned' = spawned + 1
          /\ pid' = NewPid
          /\ pc' = "read"
          /\ UNCHANGED <<ret, exc>>
       \/ /\ engine = "none"
          /\ pc' = "read"
          /\ exc' = "EngineUnavailable"
          /\ UNCHANGED <<engine, ret, spawned, pid>>
    /\ UNCHANGED <<pgn_str, me_white, game, board, idx, is_my_move, eval_before,
                   eval_after, records, acc_out, eval_drop, category, appended,
                   evalFailed, info_before, info_after, inflight, reqs, answered,
                   earlier, peer,
                   session_state, hist, fetch>>

\* popen_uci: a new engine process is started, or cannot be
Popen ==
    /\ pc = "start"
    /\ \/ /\ engine' = "live"
          /\ spawned' = spawned + 1
          /\ pid' = NewPid
          /\ pc' = "read"
          /\ UNCHANGED <<ret, exc>>
       \/ /\ engine = "none"
          /\ Raise("EngineUnavailable")
          /\ UNCHANGED <<spawned, pid>>
    /\ UNCHANGED <<pgn_str, me_white, game, board, idx, is_my_move, eval_before,
                   eval_after, records, acc_out, eval_drop, category, appended,
                   evalFailed, info_before, info_after, inflight, reqs, answered,
                   earlier, peer,
                   session_state, hist, fetch>>

\* mutant: records is not a fresh list of this call
ReadGame_stale ==
    /\ pc = "read"
    /\ IF pgn_str.hasGame
       THEN /\ game' = LegalPrefix(pgn_str.tokens)
            /\ board' = [turn |-> pgn_str.turn, ply |-> 0]
            /\ records' = records
            /\ idx' = 1
            /\ pc' = "loop"
            /\ UNCHANGED <<engine, ret, exc>>
       ELSE /\ Raise("AttributeError")
            /\ UNCHANGED <<game, board, records, idx>>
    /\ UNCHANGED <<pgn_str, me_white, is_my_move, eval_before, eval_after,
                   acc_out, eval_drop, category, appended, evalFailed,
                   info_before, info_after, pid, spawned, inflight, reqs,
                   answered,
                   earlier, peer,
                   session_state, hist, fetch>>

\* read_game, game.board(), records = []: read_game returns None for a text
\* without a game, and None.board() raises
ReadGame ==
    /\ pc = "read"
    /\ IF pgn_str.hasGame
       THEN /\ game' = LegalPrefix(pgn_str.tokens)
            /\ board' = [turn |-> pgn_str.turn, ply |-> 0]
            /\ records' = <<>>
            /\ idx' = 1
            /\ pc' = "loop"
            /\ UNCHANGED <<engine, ret, exc>>
       ELSE /\ Raise("AttributeError")
            /\ UNCHANGED <<game, board, records, idx>>
    /\ UNCHANGED <<pgn_str, me_white, is_my_move, eval_before, eval_after,
                   acc_out, eval_drop, category, appended, evalFailed,
                   info_before, info_after, pid, spawned, inflight, reqs,
                   answered,
                   earlier, peer,
                   session_state, hist, fetch>>

\* mutant: the failure is swallowed and what was collected so far is returned
AnalyseRaises_partial ==
    /\ pc' = "returned"
    /\ ret' = DataFrame(records)
    /\ evalFailed' = idx
    /\ UNCHANGED <<engine, exc>>

\* mutant: the failed request is issued again
AnalyseRaises_retry ==
    /\ pc' = IF pc = "wait_before" THEN "loop" ELSE "after"
    /\ evalFailed' = idx
    /\ UNCHANGED <<engine, ret, exc>>

\* engine.analyse raises (engine error, timeout): nothing catches it
AnalyseRaises ==
    /\ Raise("EngineError")
    /\ evalFailed' = idx

\* engine.analyse(board, Limit(depth=DEPTH)) is called: the position goes to
\* the process behind engine, and the call blocks until the answer
Request(phase) ==
    /\ reqs' = Append(reqs, [at |-> idx, phase |-> phase, pos |-> board.ply,
                             pid |-> pid, eng |-> engine])
    /\ inflight' = inflight + 1

\* mutant: the request is sent and the answer is not awaited
EvalBefore_nowait ==
    /\ pc = "loop"
    /\ idx <= Len(game)
    /\ is_my_move' = IsMyMove(board.turn, me_white)
    /\ Request("before")
    /\ pc' = "push"
    /\ UNCHANGED <<engine, pgn_str, me_white, game, board, idx, eval_before,
                   eval_after, records, ret, exc, acc_out, eval_drop, category,
                   appended, evalFailed, info_before, info_after, pid, spawned,
                   answered,
                   earlier, peer,
                   session_state, hist, fetch>>

\* for move in game.mainline_moves(): the next move; is_my_move; the analyse
\* request on the position before the move
EvalBefore ==
    /\ pc = "loop"
    /\ idx <= Len(game)
    /\ is_my_move' = IsMyMove(board.turn, me_white)
    /\ Request("before")
    /\ pc' = "wait_before"
    /\ UNCHANGED <<engine, pgn_str, me_white, game, board, idx, eval_before,
                   eval_after, records, ret, exc, acc_out, eval_drop, category,
                   appended, evalFailed, info_before, info_after, pid, spawned,
                   answered,
                   earlier, peer,
                   session_state, hist, fetch>>

\* mutant: the engine neither answers nor fails, and the call stays blocked
AnswerBefore_never ==
    /\ pc = "wait_before"
    /\ UNCHANGED vars

\* the engine answers the request, or the call raises; eval_before
AnswerBefore ==
    /\ pc = "wait_before"
    /\ inflight' = inflight - 1
    /\ \/ \E rel \in EngineScores :
             /\ info_before' = [relative |-> rel, turn |-> board.turn]
             /\ eval_before' = EvalOf(rel, board.turn, me_white)
             /\ pc' = "push"
             /\ UNCHANGED <<engine, ret, exc, evalFailed>>
       \/ /\ AnalyseRaises
          /\ UNCHANGED <<eval_before, info_before>>
    /\ UNCHANGED <<pgn_str, me_white, game, board, idx, is_my_move, eval_after,
                   records, acc_out, eval_drop, category, appended, info_after,
                   pid, spawned, reqs, answered,
                   earlier, peer,
                   session_state, hist, fetch>>

\* mutant: the move is not played on the board
Push_skipped ==
    /\ pc = "push"
    /\ pc' = "after"
    /\ UNCHANGED <<engine, pgn_str, me_white, game, board, idx, is_my_move,
                   eval_before, eval_after, records, ret, exc, acc_out,
                   eval_drop, category, appended, evalFailed, info_before,
                   info_after, pid, spawned, inflight, reqs, answered,
                   earlier, peer,
                   session_state, hist, fetch>>

\* board.push(move)
Push ==
    /\ pc = "push"
    /\ board' = [turn |-> Other(board.turn), ply |-> board.ply + 1]
    /\ pc' = "after"
    /\ UNCHANGED <<engine, pgn_str, me_white, game, idx, is_my_move, eval_before,
                   eval_after, records, ret, exc, acc_out, eval_drop, category,
                   appended, evalFailed, info_before, info_after, pid, spawned,
                   inflight, reqs, answered,
                   earlier, peer,
                   session_state, hist, fetch>>

\* mutant: the drop is taken the other way round
NewRecord_reversed(before, after) ==
    [eval_before |-> before,
     eval_after |-> after,
     eval_drop |-> before - after,
     category |-> classify(before - after)]

\* records.append({...}) of the tracked player's move
NewRecord(before, after) ==
    [eval_before |-> before,
     eval_after |-> after,
     eval_drop |-> after - before,
     category |-> classify(after - before)]

\* mutant: the position after the move is evaluated for the tracked player's
\* moves only
EvalAfter_mine ==
    /\ pc = "after"
    /\ IF is_my_move
       THEN /\ Request("after")
            /\ pc' = "wait_after"
            /\ UNCHANGED idx
       ELSE /\ idx' = idx + 1
            /\ pc' = "loop"
            /\ UNCHANGED <<reqs, inflight>>
    /\ UNCHANGED <<engine, pgn_str, me_white, game, board, is_my_move,
                   eval_before, eval_after, records, ret, exc, acc_out,
                   eval_drop, category, appended, evalFailed, info_before,
                   info_after, pid, spawned, answered,
                   earlier, peer,
                   session_state, hist, fetch>>

\* the analyse request on the position after the move
EvalAfter ==
    /\ pc = "after"
    /\ Request("after")
    /\ pc' = "wait_after"
    /\ UNCHANGED <<engine, pgn_str, me_white, game, board, idx, is_my_move,
                   eval_before, eval_after, records, ret, exc, acc_out,
                   eval_drop, category, appended, evalFailed, info_before,
                   info_after, pid, spawned, answered,
                   earlier, peer,
                   session_state, hist, fetch>>

\* the engine answers, or the call raises; eval_after, then the record of the
\* tracked player's move
AnswerAfter ==
    /\ pc = "wait_after"
    /\ inflight' = inflight - 1
    /\ \/ \E rel \in EngineScores :
             LET after == EvalOf(rel, board.turn, me_white)
                 info == [relative |-> rel, turn |-> board.turn]
             IN
             /\ info_after' = info
             /\ eval_after' = after
             /\ IF is_my_move
                THEN /\ records' = Append(records, NewRecord(eval_before, after))
                     /\ appended' = Append(appended, idx)
                     /\ answered' = Append(answered, [before |-> info_before,
                                                      after |-> info])
                ELSE UNCHANGED <<records, appended, answered>>
             /\ idx' = idx + 1
             /\ pc' = "loop"
             /\ UNCHANGED <<engine, ret, exc, evalFailed>>
       \/ /\ AnalyseRaises
          /\ UNCHANGED <<eval_after, info_after, records, appended, answered, idx>>
    /\ UNCHANGED <<pgn_str, me_white, game, board, is_my_move, eval_before,
                   acc_out, eval_drop, category, info_before, pid, spawned, reqs,
                   earlier, peer,
                   session_state, hist, fetch>>

\* the loop is over: engine.quit()
Quit ==
    /\ pc = "loop"
    /\ idx > Len(game)
    /\ engine' = "quit"
    /\ pc' = "return"
    /\ UNCHANGED <<pgn_str, me_white, game, board, idx, is_my_move, eval_before,
                   eval_after, records, ret, exc, acc_out, eval_drop, category,
                   appended, evalFailed, info_before, info_after, pid, spawned,
                   inflight, reqs, answered,
                   earlier, peer,
                   session_state, hist, fetch>>

\* return pd.DataFrame(records)
Return ==
    /\ pc = "return"
    /\ ret' = DataFrame(records)
    /\ pc' = "returned"
    /\ UNCHANGED <<engine, pgn_str, me_white, game, board, idx, is_my_move,
                   eval_before, eval_after, records, exc, acc_out, eval_drop,
                   category, appended, evalFailed, info_before, info_after, pid,
                   spawned, inflight, reqs, answered,
                   earlier, peer,
                   session_state, hist, fetch>>

\* main: accuracy, rating_equiv = compute_accuracy(df_moves)
ComputeAccuracy ==
    /\ pc = "returned"
    /\ acc_out' = compute_accuracy(ret)
    /\ pc' = "done"
    /\ UNCHANGED <<runVars, eval_drop, category, session_state, hist, fetch>>

Next ==
    \/ Popen
    \/ ReadGame
    \/ EvalBefore
    \/ AnswerBefore
    \/ Push
    \/ EvalAfter
    \/ AnswerAfter
    \/ Quit
    \/ Return
    \/ ComputeAccuracy

Spec == Init /\ [][Next]_vars

----------------------------------------------------------------------------
(* analyze_single_game called again and again, as "Run Analysis" of the
   analyse-game view does *)

RunPGNs == {p \in PGNs : Len(p.tokens) <= MaxRunPlies}

InitRuns == \E p \in RunPGNs : \E w \in BOOLEAN : Fresh(p, w)

\* The next call, with any arguments.  Its frame is new: the locals are given
\* their initial values, but for records, which is left as the call before
\* left it until records = [] assigns it.  The engine processes started so
\* far stay counted.
Restart ==
    /\ pc \in {"done", "raised"}
    /\ Len(earlier) + 1 < MaxRuns
    /\ earlier' = Append(earlier, IF pc = "raised" THEN exc ELSE "done")
    /\ \E p \in RunPGNs : pgn_str' = p
    /\ \E w \in BOOLEAN : me_white' = w
    /\ pc' = "start"
    /\ engine' = "none"
    /\ pid' = 0
    /\ game' = <<>>
    /\ board' = NoBoard
    /\ idx' = 0
    /\ is_my_move' = FALSE
    /\ eval_before' = 0
    /\ eval_after' = 0
    /\ ret' = NoFrame
    /\ exc' = "none"
    /\ acc_out' = NoOutcome
    /\ appended' = <<>>
    /\ evalFailed' = 0
    /\ info_before' = NoInfo
    /\ info_after' = NoInfo
    /\ reqs' = <<>>
    /\ answered' = <<>>
    /\ UNCHANGED <<records, spawned, inflight, eval_drop, category, peer,
                   session_state, hist, fetch>>

NextRuns ==
    \/ Next
    \/ Restart

SpecRuns == InitRuns /\ [][NextRuns]_vars

\* One call whose engine answers or fails every request: the interpreter
\* takes the next statement of the call whenever there is one, and an analyse
\* request that is waiting gets its answer or its exception.
SpecLive == InitRuns /\ [][Next]_vars /\ WF_vars(Next)

----------------------------------------------------------------------------
(* two calls of analyze_single_game on different games, running concurrently:
   the second call, with its own frame in peer *)

\* one-ply games, White or Black to move
ConcPGNs ==
    {[hasGame |-> TRUE, turn |-> t, tokens |-> <<"legal">>] : t \in {WHITE, BLACK}}

InitConc == \E p \in ConcPGNs : \E w \in BOOLEAN : Fresh(p, w)

PeerRaise(kind) == [peer EXCEPT !.pc = "raised", !.exc = kind]

PeerRequest(phase) ==
    Append(peer.reqs, [at |-> peer.idx, phase |-> phase, pos |-> peer.board.ply,
                       pid |-> peer.pid, eng |-> peer.engine])

\* popen_uci in the second call
PeerPopen ==
    /\ peer.pc = "start"
    /\ \/ /\ peer' = [peer EXCEPT !.engine = "live", !.pid = NewPid, !.pc = "read"]
          /\ spawned' = spawned + 1
       \/ /\ peer' = PeerRaise("EngineUnavailable")
          /\ UNCHANGED spawned
    /\ UNCHANGED <<pc, engine, pgn_str, me_white, game, board, idx, is_my_move,
                   eval_before, eval_after, records, ret, exc, acc_out,
                   eval_drop, category, appended, evalFailed, info_before,
                   info_after, pid, inflight, reqs, answered, earlier,
                   session_state, hist, fetch>>

\* what the second call does after popen_uci, statement by statement as the
\* first: read_game and board, the request and the answer before the move,
\* the push, the request and the answer after it with the record, quit, return
PeerStep ==
    /\ \/ /\ peer.pc = "read"
          /\ peer' = IF peer.pgn_str.hasGame
                     THEN [peer EXCEPT !.game = LegalPrefix(peer.pgn_str.tokens),
                                       !.board = [turn |-> peer.pgn_str.turn,
                                                  ply |-> 0],
                                       !.records = <<>>,
                                       !.idx = 1,
                                       !.pc = "loop"]
                     ELSE PeerRaise("AttributeError")
       \/ /\ peer.pc = "loop"
          /\ peer.idx <= Len(peer.game)
          /\ peer' = [peer EXCEPT
                          !.is_my_move = IsMyMove(peer.board.turn, peer.me_white),
                          !.reqs = PeerRequest("before"),
                          !.pc = "wait_before"]
       \/ /\ peer.pc = "wait_before"
          /\ \/ \E rel \in EngineScores :
                   peer' = [peer EXCEPT
                               !.info_before = [relative |-> rel,
                                                turn |-> peer.board.turn],
                               !.eval_before = EvalOf(rel, peer.board.turn,
                                                      peer.me_white),
                               !.pc = "push"]
             \/ peer' = PeerRaise("EngineError")
       \/ /\ peer.pc = "push"
          /\ peer' = [peer EXCEPT !.board = [turn |-> Other(peer.board.turn),
                                             ply |-> peer.board.ply + 1],
                                  !.pc = "after"]
       \/ /\ peer.pc = "after"
          /\ peer' = [peer EXCEPT !.reqs = PeerRequest("after"),
                                  !.pc = "wait_after"]
       \/ /\ peer.pc = "wait_after"
          /\ \/ \E rel \in EngineScores :
                   LET after == EvalOf(rel, peer.board.turn, peer.me_white)
                       info == [relative |-> rel, turn |-> peer.board.turn]
                       mine == peer.is_my_move
                   IN  peer' = [peer EXCEPT
                           !.info_after = info,
                           !.eval_after = after,
                           !.records = IF mine
                                       THEN Append(@, NewRecord(peer.eval_before,
                                                                after))
                                       ELSE @,
                           !.appended = IF mine THEN Append(@, peer.idx) ELSE @,
                           !.answered = IF mine
                                        THEN Append(@, [before |-> peer.info_before,
                                                        after |-> info])
                                        ELSE @,
                           !.idx = @ + 1,
                           !.pc = "loop"]
             \/ peer' = PeerRaise("EngineError")
       \/ /\ peer.pc = "loop"
          /\ peer.idx > Len(peer.game)
          /\ peer' = [peer EXCEPT !.engine = "quit", !.pc = "return"]
       \/ /\ peer.pc = "return"
          /\ peer' = [peer EXCEPT !.ret = DataFrame(peer.records),
                                  !.pc = "returned"]
    /\ UNCHANGED <<pc, engine, pgn_str, me_white, game, board, idx, is_my_move,
                   eval_before, eval_after, records, ret, exc, acc_out,
                   eval_drop, category, appended, evalFailed, info_before,
                   info_after, pid, spawned, inflight, reqs, answered, earlier,
                   session_state, hist, fetch>>

\* the second call is made, on a game of its own, while the first runs
PeerCall ==
    /\ peer.pc = "absent"
    /\ \E p \in ConcPGNs : \E w \in BOOLEAN : peer' = PeerFresh(p, w)
    /\ UNCHANGED <<pc, engine, pgn_str, me_white, game, board, idx, is_my_move,
                   eval_before, eval_after, records, ret, exc, acc_out,
                   eval_drop, category, appended, evalFailed, info_before,
                   info_after, pid, spawned, inflight, reqs, answered, earlier,
                   session_state, hist, fetch>>

NextConc ==
    \/ Next
    \/ PeerCall
    \/ PeerPopen
    \/ PeerStep

SpecConc == InitConc /\ [][NextConc]_vars

----------------------------------------------------------------------------
(* render_analyse_game: the analyse-game view and its session state *)

\* the games fetch_game_from_url can give, each with a PGN
ViewGames == ConcPGNs

\* no script run of the view is in progress
Idle == pc \in {"idle", "stored", "reported"}

InitView ==
    /\ pc = "idle"
    /\ session_state = [NoSession EXCEPT !.page = "analyse_game"]
    /\ hist = NoHist
    /\ fetch = NoFetch
    /\ engine = "none"
    /\ pgn_str = NoGame
    /\ me_white = TRUE
    /\ game = <<>>
    /\ board = NoBoard
    /\ idx = 0
    /\ is_my_move = FALSE
    /\ eval_before = 0
    /\ eval_after = 0
    /\ records = <<>>
    /\ ret = NoFrame
    /\ exc = "none"
    /\ acc_out = NoOutcome
    /\ eval_drop = 0
    /\ category = "none"
    /\ appended = <<>>
    /\ evalFailed = 0
    /\ info_before = NoInfo
    /\ info_after = NoInfo
    /\ pid = 0
    /\ spawned = 0
    /\ inflight = 0
    /\ reqs = <<>>
    /\ answered = <<>>
    /\ earlier = <<>>
    /\ peer = NoPeer

\* "Back to Home", and the landing page's button that opens the view again
SwitchPage ==
    /\ Idle
    /\ session_state' =
           [session_state EXCEPT
               !.page = IF @ = "landing" THEN "analyse_game" ELSE "landing"]
    /\ pc' = "idle"
    /\ UNCHANGED <<hist, runVars, acc_out, eval_drop, category, fetch>>

\* "Analyze Game": fetch_game_from_url gives a game, which is stored in
\* game_data, or raises, which is reported; nothing else is written
AnalyzeGame ==
    /\ Idle
    /\ session_state.page = "analyse_game"
    /\ \/ \E g \in ViewGames :
             session_state' = [session_state EXCEPT !.game_data = g]
       \/ UNCHANGED session_state
    /\ pc' = "idle"
    /\ UNCHANGED <<hist, runVars, acc_out, eval_drop, category, fetch>>

\* "Run Analysis": analyze_single_game(pgn, me_white) is called with the PGN
\* of game_data and the colour of the player chosen
RunAnalysis ==
    /\ Idle
    /\ session_state.page = "analyse_game"
    /\ session_state.game_data.hasGame
    /\ Len(earlier) < MaxRuns
    /\ pgn_str' = session_state.game_data
    /\ \E w \in BOOLEAN : me_white' = w
    /\ hist' = [hist EXCEPT !.atStart = session_state, !.lastRun = "running"]
    /\ pc' = "start"
    /\ engine' = "none"
    /\ pid' = 0
    /\ game' = <<>>
    /\ board' = NoBoard
    /\ idx' = 0
    /\ is_my_move' = FALSE
    /\ eval_before' = 0
    /\ eval_after' = 0
    /\ ret' = NoFrame
    /\ exc' = "none"
    /\ acc_out' = NoOutcome
    /\ appended' = <<>>
    /\ evalFailed' = 0
    /\ info_before' = NoInfo
    /\ info_after' = NoInfo
    /\ reqs' = <<>>
    /\ answered' = <<>>
    /\ UNCHANGED <<records, spawned, inflight, eval_drop, category, peer,
                   earlier, session_state, fetch>>

\* both calls have returned: st.session_state.analysis_results = {...}
StoreResults ==
    /\ pc = "done"
    /\ acc_out.kind = "ok"
    /\ session_state' =
           [session_state EXCEPT
               !.analysis_results =
                   [df_moves |-> ret,
                    accuracy |-> [num |-> acc_out.num, cnt |-> acc_out.cnt],
                    rating_equiv |-> acc_out.rating,
                    player |-> IF me_white THEN "white" ELSE "black"]]
    /\ hist' = [hist EXCEPT !.resultsOf = session_state.game_data,
                            !.lastRun = "ok"]
    /\ earlier' = Append(earlier, "done")
    /\ pc' = "stored"
    /\ UNCHANGED <<engine, pgn_str, me_white, game, board, idx, is_my_move,
                   eval_before, eval_after, records, ret, exc, acc_out,
                   eval_drop, category, appended, evalFailed, info_before,
                   info_after, pid, spawned, inflight, reqs, answered, peer, fetch>>

\* mutant: a failed analysis removes the results of the analysis before it
ReportError_clear ==
    /\ \/ pc = "raised"
       \/ pc = "done" /\ acc_out.kind = "KeyError"
    /\ session_state' = [session_state EXCEPT !.analysis_results = NoResults]
    /\ hist' = [hist EXCEPT !.lastRun = "failed"]
    /\ earlier' = Append(earlier, IF pc = "raised" THEN exc ELSE "KeyError")
    /\ pc' = "reported"
    /\ UNCHANGED <<engine, pgn_str, me_white, game, board, idx, is_my_move,
                   eval_before, eval_after, records, ret, exc, acc_out,
                   eval_drop, category, appended, evalFailed, info_before,
                   info_after, pid, spawned, inflight, reqs, answered, peer, fetch>>

\* except Exception as e: st.error(...): an exception of analyze_single_game
\* or of compute_accuracy is caught and shown, and nothing is written
ReportError ==
    /\ \/ pc = "raised"
       \/ pc = "done" /\ acc_out.kind = "KeyError"
    /\ hist' = [hist EXCEPT !.lastRun = "failed"]
    /\ earlier' = Append(earlier, IF pc = "raised" THEN exc ELSE "KeyError")
    /\ pc' = "reported"
    /\ UNCHANGED <<engine, pgn_str, me_white, game, board, idx, is_my_move,
                   eval_before, eval_after, records, ret, exc, acc_out,
                   eval_drop, category, appended, evalFailed, info_before,
                   info_after, pid, spawned, inflight, reqs, answered, peer,
                   session_state, fetch>>

\* what the view shows under "Analysis Complete", NoResults when nothing
Shown ==
    IF /\ session_state.page = "analyse_game"
       /\ session_state.game_data.hasGame
       /\ session_state.analysis_results # NoResults
    THEN session_state.analysis_results
    ELSE NoResults

NextView ==
    \/ SwitchPage
    \/ AnalyzeGame
    \/ RunAnalysis
    \/ Next
    \/ StoreResults
    \/ ReportError

SpecView == InitView /\ [][NextView]_vars

----------------------------------------------------------------------------
(* fetch_games.py: fetch_games_for_user over a range of months, the months
   numbered 1..last in the order of the two loops *)

\* a month's NDJSON file: not there, there and empty, there with part of the
\* games (a write that failed), there with the games
FileStates == {"absent", "empty", "partial", "games"}

\* mutant: a month is taken as downloaded when its file is empty
already_downloaded_empty(files, m) == files[m] = "empty"

\* path.exists() and path.stat().st_size > 0
already_downloaded(files, m) == files[m] \in {"partial", "games"}

InitFetch ==
    /\ \E n \in 1..MaxMonths :
       \E fs \in [1..MaxMonths -> {"absent", "empty", "games"}] :
           fetch = [pc |-> "check", run |-> 1, last |-> n, month |-> 1,
                    files |-> fs, sent |-> <<>>, wrote |-> {},
                    before |-> <<fs>>]
    /\ pc = "idle"
    /\ session_state = NoSession
    /\ hist = NoHist
    /\ engine = "none"
    /\ pgn_str = NoGame
    /\ me_white = TRUE
    /\ game = <<>>
    /\ board = NoBoard
    /\ idx = 0
    /\ is_my_move = FALSE
    /\ eval_before = 0
    /\ eval_after = 0
    /\ records = <<>>
    /\ ret = NoFrame
    /\ exc = "none"
    /\ acc_out = NoOutcome
    /\ eval_drop = 0
    /\ category = "none"
    /\ appended = <<>>
    /\ evalFailed = 0
    /\ info_before = NoInfo
    /\ info_after = NoInfo
    /\ pid = 0
    /\ spawned = 0
    /\ inflight = 0
    /\ reqs = <<>>
    /\ answered = <<>>
    /\ earlier = <<>>
    /\ peer = NoPeer

\* what the fetch loop leaves alone
analysisVars ==
    <<pc, acc_out, eval_drop, category, runVars, session_state, hist>>

\* if already_downloaded(raw_dir, year, month): continue
SkipMonth ==
    /\ fetch.pc = "check"
    /\ fetch.month <= fetch.last
    /\ already_downloaded(fetch.files, fetch.month)
    /\ fetch' = [fetch EXCEPT !.month = @ + 1]
    /\ UNCHANGED analysisVars

\* the request of fetch_month as the history keeps it
Sent(got) ==
    Append(fetch.sent, [run |-> fetch.run, month |-> fetch.month,
                        had |-> fetch.files[fetch.month], got |-> got])

\* data = fetch_month(username, year, month): the request is sent; it gives
\* games, or None (request error, 404, 403, no games) and the loop goes on,
\* or raise_for_status or resp.json() raises and the exception leaves
\* fetch_games_for_user
FetchMonth ==
    /\ fetch.pc = "check"
    /\ fetch.month <= fetch.last
    /\ ~already_downloaded(fetch.files, fetch.month)
    /\ \/ fetch' = [fetch EXCEPT !.sent = Sent("games"), !.pc = "save"]
       \/ fetch' = [fetch EXCEPT !.sent = Sent("none"), !.month = @ + 1]
       \/ fetch' = [fetch EXCEPT !.sent = Sent("error"), !.pc = "raised"]
    /\ UNCHANGED analysisVars

\* save_month_ndjson: the games are written, one per line; or the write
\* fails, leaving the file opened with "w" empty or with part of the games
SaveMonth ==
    /\ fetch.pc = "save"
    /\ \/ fetch' = [fetch EXCEPT
                       !.files[fetch.month] = "games",
                       !.wrote = @ \cup {[run |-> fetch.run,
                                          month |-> fetch.month]},
                       !.month = @ + 1,
                       !.pc = "check"]
       \/ \E left \in {"empty", "partial"} :
             fetch' = [fetch EXCEPT
                          !.files[fetch.month] = left,
                          !.wrote = @ \cup {[run |-> fetch.run,
                                             month |-> fetch.month]},
                          !.pc = "raised"]
    /\ UNCHANGED analysisVars

\* the loops are over
FetchDone ==
    /\ fetch.pc = "check"
    /\ fetch.month > fetch.last
    /\ fetch' = [fetch EXCEPT !.pc = "done"]
    /\ UNCHANGED analysisVars

\* fetch_games_for_user is run again over the same range, right after
FetchAgain ==
    /\ fetch.pc \in {"done", "raised"}
    /\ fetch.run < MaxFetchRuns
    /\ fetch' = [fetch EXCEPT !.run = @ + 1,
                              !.month = 1,
                              !.before = Append(@, fetch.files),
                              !.pc = "check"]
    /\ UNCHANGED analysisVars

NextFetch ==
    \/ SkipMonth
    \/ FetchMonth
    \/ SaveMonth
    \/ FetchDone
    \/ FetchAgain

SpecFetch == InitFetch /\ [][NextFetch]_vars

----------------------------------------------------------------------------
(* compute_accuracy on the frames analyze_single_game can build *)

\* (eval_before, eval_after) of a record, in ten-thousandths of a pawn:
\* gains, an unchanged evaluation, small and large losses, mate-sized losses
EvalPairs ==
    {<<0, 10000>>, <<0, 0>>, <<0, 0 - 100>>, <<0, 0 - 200>>, <<0, 0 - 2000>>,
     <<0, 0 - 4000>>, <<0, 0 - 1000000>>, <<1000000, 0 - 1000000>>}

Row(p) == NewRecord(p[1], p[2])

Frames ==
    UNION {{DataFrame([i \in 1..n |-> Row(ps[i])]) : ps \in [1..n -> EvalPairs]} :
              n \in 0..MaxRows}

InitAccuracy ==
    /\ pc = "returned"
    /\ ret \in Frames
    /\ engine = "quit"
    /\ pgn_str = NoGame
    /\ me_white = TRUE
    /\ game = <<>>
    /\ board = NoBoard
    /\ idx = 0
    /\ is_my_move = FALSE
    /\ eval_before = 0
    /\ eval_after = 0
    /\ records = ret.rows
    /\ exc = "none"
    /\ acc_out = NoOutcome
    /\ eval_drop = 0
    /\ category = "none"
    /\ appended = <<>>
    /\ evalFailed = 0
    /\ info_before = NoInfo
    /\ info_after = NoInfo
    /\ pid = 0
    /\ spawned = 0
    /\ inflight = 0
    /\ reqs = <<>>
    /\ answered = <<>>
    /\ earlier = <<>>
    /\ peer = NoPeer
    /\ session_state = NoSession
    /\ hist = NoHist
    /\ fetch = NoFetch

SpecAccuracy == InitAccuracy /\ [][ComputeAccuracy]_vars

----------------------------------------------------------------------------
(* classify on its own *)

InitClassify ==
    /\ pc = "classify"
    /\ eval_drop \in (0 - MaxDrop)..MaxDrop
    /\ category = "none"
    /\ ret = NoFrame
    /\ engine = "none"
    /\ pgn_str = NoGame
    /\ me_white = TRUE
    /\ game = <<>>
    /\ board = NoBoard
    /\ idx = 0
    /\ is_my_move = FALSE
    /\ eval_before = 0
    /\ eval_after = 0
    /\ records = <<>>
    /\ exc = "none"
    /\ acc_out = NoOutcome
    /\ appended = <<>>
    /\ evalFailed = 0
    /\ info_before = NoInfo
    /\ info_after = NoInfo
    /\ pid = 0
    /\ spawned = 0
    /\ inflight = 0
    /\ reqs = <<>>
    /\ answered = <<>>
    /\ earlier = <<>>
    /\ peer = NoPeer
    /\ session_state = NoSession
    /\ hist = NoHist
    /\ fetch = NoFetch

\* category = classify(eval_drop)
Classify ==
    /\ pc = "classify"
    /\ category' = classify(eval_drop)
    /\ pc' = "classified"
    /\ UNCHANGED <<runVars, acc_out, eval_drop, session_state, hist, fetch>>

SpecClassify == InitClassify /\ [][Classify]_vars

----------------------------------------------------------------------------
(* Properties *)

Ended == pc \in {"returned", "done", "raised"}

Returned == pc \in {"returned", "done"}

AllLegal(p) == p.hasGame /\ \A j \in DOMAIN p.tokens : p.tokens[j] = "legal"

HasIllegal(p) == p.hasGame /\ \E j \in DOMAIN p.tokens : p.tokens[j] = "illegal"

\* the side that plays ply j of a game whose first ply is played by first
SideAt(first, j) == IF j % 2 = 1 THEN first ELSE Other(first)

\* the plies of p played by the tracked player, in move order
TrackedPlies(p, meWhite) ==
    SelectSeq([j \in 1..Len(p.tokens) |-> j],
              LAMBDA j : SideAt(p.turn, j) = IF meWhite THEN WHITE ELSE BLACK)

RemoveAt(rows, i) == SubSeq(rows, 1, i - 1) \o SubSeq(rows, i + 1, Len(rows))

\* C1: on every exit path of analyze_single_game (return or exception) the
\* engine started by popen_uci has been terminated: no end state of a run
\* has a live engine.
C1_EngineReleasedOnExit == Ended => engine # "live"

\* C2: for a legal game and either tracked colour, the returned frame has
\* exactly one record per ply played by the tracked player, appended at those
\* plies and in move order.
C2_OneRecordPerTrackedPly ==
    (Returned /\ AllLegal(pgn_str)) =>
        /\ appended = TrackedPlies(pgn_str, me_white)
        /\ Len(ret.rows) = Len(appended)

C2_Witness ==
    /\ pc = "done"
    /\ AllLegal(pgn_str)
    /\ Len(pgn_str.tokens) = 4
    /\ ~me_white
    /\ appended = <<2, 4>>
    /\ Len(ret.rows) = 2

\* C3: once an engine evaluation has failed, the run ends with the error
\* raised to the caller: no frame is returned (the records collected so far
\* are not returned as a partial result), no further record is made, and
\* nothing is aggregated.
C3_FailureDiscardsRecords ==
    evalFailed # 0 =>
        /\ pc = "raised"
        /\ exc = "EngineError"
        /\ ret = NoFrame
        /\ acc_out = NoOutcome
        /\ \A j \in DOMAIN appended : appended[j] < evalFailed

\* the tracked player's third move, the fifth ply, fails with two records made
C3_Witness ==
    /\ evalFailed = 5
    /\ pc = "raised"
    /\ Len(records) = 2
    /\ ret = NoFrame

\* C4: a PGN with an illegal move makes analyze_single_game abort with an
\* error and return no frame, whatever number of legal moves comes first.
C4_IllegalMoveAborts ==
    (Ended /\ HasIllegal(pgn_str)) => (pc = "raised" /\ ret = NoFrame)

\* C5: classify is total and its six tiers partition the deltas with
\* inclusive lower bounds: >= 0.30 brilliant, [0.10, 0.30) great,
\* [-0.05, 0.10) good, [-0.15, -0.05) inaccuracy, [-0.30, -0.15) mistake,
\* < -0.30 blunder; 0.30, 0.2999, -0.05, -0.0501, -0.30, -0.3001 fall in
\* brilliant, great, good, inaccuracy, mistake, blunder.
C5_ClassifyPartition ==
    pc = "classified" =>
        /\ category \in {"brilliant", "great", "good", "inaccuracy", "mistake",
                         "blunder"}
        /\ (category = "brilliant") = (eval_drop >= 3000)
        /\ (category = "great") = (eval_drop >= 1000 /\ eval_drop < 3000)
        /\ (category = "good") = (eval_drop >= 0 - 500 /\ eval_drop < 1000)
        /\ (category = "inaccuracy") =
               (eval_drop >= 0 - 1500 /\ eval_drop < 0 - 500)
        /\ (category = "mistake") =
               (eval_drop >= 0 - 3000 /\ eval_drop < 0 - 1500)
        /\ (category = "blunder") = (eval_drop < 0 - 3000)
        /\ eval_drop = 3000 => category = "brilliant"
        /\ eval_drop = 2999 => category = "great"
        /\ eval_drop = 0 - 500 => category = "good"
        /\ eval_drop = 0 - 501 => category = "inaccuracy"
        /\ eval_drop = 0 - 3000 => category = "mistake"
        /\ eval_drop = 0 - 3001 => category = "blunder"

C5_Witness ==
    /\ pc = "classified"
    /\ eval_drop = 0 - 3000
    /\ category = "mistake"

\* C6: when the tracked player made no move, the run returns an empty frame
\* without error and compute_accuracy on it gives accuracy 100 and rating 2200.
C6_EmptyGameAccuracy ==
    (pc = "done" /\ appended = <<>>) =>
        /\ ret.rows = <<>>
        /\ acc_out.kind = "ok"
        /\ acc_out.num = 100 * 10000 * acc_out.cnt
        /\ acc_out.rating = 2200

\* C7: for a non-empty frame without any negative delta, compute_accuracy
\* returns accuracy 100 and rating 2200.
C7_NoLossIsPerfect ==
    (pc = "done" /\ ret.rows # <<>>
        /\ \A i \in DOMAIN ret.rows : ret.rows[i].eval_drop >= 0) =>
        /\ acc_out.kind = "ok"
        /\ acc_out.num = 100 * 10000 * acc_out.cnt
        /\ acc_out.rating = 2200

C7_Witness ==
    /\ pc = "done"
    /\ Len(ret.rows) = 2
    /\ ret.rows[1].eval_drop = 10000
    /\ ret.rows[2].eval_drop = 0
    /\ acc_out.kind = "ok"

\* C8: removing a record with delta >= 0 from the records (and so, step by
\* step, adding or removing any number of them) leaves the outcome of
\* compute_accuracy, accuracy and rating, unchanged.
C8_IgnoresNonNegative ==
    pc = "done" =>
        \A i \in DOMAIN ret.rows :
            ret.rows[i].eval_drop >= 0 =>
                compute_accuracy(DataFrame(RemoveAt(ret.rows, i))) = acc_out

\* C9: every accuracy compute_accuracy returns lies in [0, 100], also for
\* mate-sized losses of 100 pawns and more.
C9_AccuracyInRange ==
    (pc = "done" /\ acc_out.kind = "ok") =>
        /\ acc_out.cnt > 0
        /\ acc_out.num >= 0
        /\ acc_out.num <= 100 * 10000 * acc_out.cnt

C9_Witness ==
    /\ pc = "done"
    /\ \E i \in DOMAIN ret.rows : ret.rows[i].eval_drop = 0 - 2000000
    /\ acc_out.kind = "ok"
    /\ acc_out.num = 0

\* C10: making one negative delta of the records larger in magnitude, all
\* else equal, never raises the accuracy.
C10_AccuracyMonotone ==
    pc = "done" =>
        \A i \in DOMAIN ret.rows : \A p \in EvalPairs :
            (ret.rows[i].eval_drop < 0 /\ Row(p).eval_drop < ret.rows[i].eval_drop) =>
                LET worse == compute_accuracy(
                                 DataFrame([ret.rows EXCEPT ![i] = Row(p)]))
                IN  /\ worse.kind = "ok"
                    /\ acc_out.kind = "ok"
                    /\ worse.num * acc_out.cnt <= acc_out.num * worse.cnt

C10_Witness ==
    /\ pc = "done"
    /\ Len(ret.rows) = 2
    /\ ret.rows[1].eval_drop = 0 - 2000
    /\ ret.rows[2].eval_drop = 0 - 100
    /\ acc_out.kind = "ok"
    /\ LET worse == compute_accuracy(
                        DataFrame([ret.rows EXCEPT ![1] = Row(<<0, 0 - 4000>>)]))
       IN  worse.num * acc_out.cnt < acc_out.num * worse.cnt

\* accuracy * 20 + 200 as the fraction RatingNum / RatingDen
RatingNum(o) == o.num + 200 * o.cnt * 500

RatingDen(o) == o.cnt * 500

\* n / d rounded to the nearest integer, a half to the even one, as round()
Rounded(n, d) ==
    LET q == n \div d
        r == n % d
    IN  IF 2 * r < d THEN q
        ELSE IF 2 * r > d THEN q + 1
        ELSE IF q % 2 = 0 THEN q ELSE q + 1

\* C11 (as claimed): the rating is accuracy * 20 + 200 rounded to the nearest
\* integer.
C11_RatingIsRounded ==
    (pc = "done" /\ acc_out.kind = "ok") =>
        acc_out.rating = Rounded(RatingNum(acc_out), RatingDen(acc_out))

\* C11 (amended): the rating is accuracy * 20 + 200 with its fractional part
\* cut off: rating <= accuracy * 20 + 200 < rating + 1.
C11_RatingIsTruncated ==
    (pc = "done" /\ acc_out.kind = "ok") =>
        /\ acc_out.rating * RatingDen(acc_out) <= RatingNum(acc_out)
        /\ RatingNum(acc_out) < (acc_out.rating + 1) * RatingDen(acc_out)

\* losses of 0.01 and 0.02 pawn: accuracy 99.775, 2195.5 before int()
C11_Witness ==
    /\ pc = "done"
    /\ Len(ret.rows) = 2
    /\ ret.rows[1].eval_drop = 0 - 100
    /\ ret.rows[2].eval_drop = 0 - 200
    /\ acc_out.kind = "ok"
    /\ acc_out.rating = 2195

\* C12: a game in which the tracked player makes exactly one move, of delta
\* -0.40, gives one record classified blunder, accuracy 94 and rating 2080.
C12_SingleBlunder ==
    (pc = "done" /\ Len(appended) = 1 /\ Len(ret.rows) = 1
        /\ ret.rows[1].eval_drop = 0 - 4000) =>
        /\ ret.rows[1].category = "blunder"
        /\ acc_out.kind = "ok"
        /\ acc_out.num = 94 * 10000 * acc_out.cnt
        /\ acc_out.rating = 2080

C12_Witness ==
    /\ pc = "done"
    /\ Len(game) = 2
    /\ Len(ret.rows) = 1
    /\ ret.rows[1].eval_before = 4000
    /\ ret.rows[1].eval_after = 0
    /\ ret.rows[1].category = "blunder"
    /\ acc_out.rating = 2080

\* the engine's answer in centipawns as White sees it
WhiteCp(info) ==
    IF info.turn = WHITE THEN ScoreInt(info.relative)
    ELSE 0 - ScoreInt(info.relative)

\* the engine's answer as the tracked player sees it, in the model's unit
TrackedView(info, meWhite) ==
    IF meWhite THEN WhiteCp(info) * 100 ELSE 0 - WhiteCp(info) * 100

\* C13: every eval_before and eval_after, of the loop and of the records, is
\* the engine's answer as the tracked player sees it, whoever is to move in
\* the evaluated position, and is the exact negation of what the same answer
\* gives when the other colour is tracked.
C13_TrackedPointOfView ==
    /\ info_before # NoInfo =>
          /\ eval_before = TrackedView(info_before, me_white)
          /\ eval_before =
                 0 - EvalOf(info_before.relative, info_before.turn, ~me_white)
    /\ info_after # NoInfo =>
          /\ eval_after = TrackedView(info_after, me_white)
          /\ eval_after =
                 0 - EvalOf(info_after.relative, info_after.turn, ~me_white)
    /\ Len(answered) = Len(records)
    /\ \A j \in DOMAIN records :
          /\ records[j].eval_before = TrackedView(answered[j].before, me_white)
          /\ records[j].eval_after = TrackedView(answered[j].after, me_white)

\* Black is tracked, White is to move and the engine answers +0.40 for White
C13_Witness ==
    /\ pc = "push"
    /\ ~me_white
    /\ info_before = [relative |-> Cp(40), turn |-> WHITE]
    /\ eval_before = 0 - 4000

IsMate(info) == info.relative.k \in {"mate", "given"}

\* C14 (as claimed): a forced mate, whatever its distance, is mapped to
\* 10000 centipawns = 100.00 pawns in magnitude.
C14_MateSaturates ==
    /\ IsMate(info_before) => Abs(eval_before) = MateScore * 100
    /\ IsMate(info_after) => Abs(eval_after) = MateScore * 100

\* C14 (amended): a forced mate in n moves is mapped to 10000 - n centipawns
\* in magnitude, every evaluation is at most 100.00 pawns in magnitude and
\* every delta at most 200.00.
C14_MateBelowSaturation ==
    /\ info_before # NoInfo =>
          /\ Abs(eval_before) <= MateScore * 100
          /\ info_before.relative.k = "mate" =>
                Abs(eval_before) = (MateScore - Abs(info_before.relative.v)) * 100
    /\ info_after # NoInfo =>
          /\ Abs(eval_after) <= MateScore * 100
          /\ info_after.relative.k = "mate" =>
                Abs(eval_after) = (MateScore - Abs(info_after.relative.v)) * 100
    /\ \A j \in DOMAIN records :
          /\ Abs(records[j].eval_before) <= MateScore * 100
          /\ Abs(records[j].eval_after) <= MateScore * 100
          /\ Abs(records[j].eval_drop) <= 2 * MateScore * 100

\* the engine announces a mate in 2 and the evaluation is 99.98 pawns
C14_Witness ==
    /\ pc = "push"
    /\ info_before.relative = Mate(2)
    /\ Abs(eval_before) = 999800

\* C15: within a call the engine is started once, every request goes to that
\* engine while it is live (after the start, before the quit), and a request
\* is sent only when the one before it has been answered.
C15_OneEngineSequentialRequests ==
    /\ inflight \in {0, 1}
    /\ inflight = 1 <=> pc \in {"wait_before", "wait_after"}
    /\ spawned <= 1
    /\ (pc # "start" /\ exc # "EngineUnavailable") => spawned = 1
    /\ \A k \in DOMAIN reqs : reqs[k].eng = "live" /\ reqs[k].pid = 1
    /\ engine = "quit" => inflight = 0

C15_Witness ==
    /\ pc = "wait_after"
    /\ Len(reqs) = 4
    /\ inflight = 1
    /\ spawned = 1

\* C16: when the engine cannot be started the call fails with an error
\* before any position is evaluated and before any record is made.
C16_EngineUnavailableFailsFirst ==
    exc = "EngineUnavailable" =>
        /\ pc = "raised"
        /\ spawned = 0
        /\ reqs = <<>>
        /\ records = <<>>
        /\ ret = NoFrame
        /\ acc_out = NoOutcome

C16_Witness ==
    /\ exc = "EngineUnavailable"
    /\ pc = "raised"
    /\ AllLegal(pgn_str)
    /\ Len(pgn_str.tokens) = 3

\* C17: once a request has failed the call is over and no request follows in
\* it; a request after that belongs to a new call and goes to the engine that
\* call has started.
C17_NoRetry ==
    /\ [](evalFailed # 0 =>
             /\ pc = "raised"
             /\ exc = "EngineError"
             /\ reqs # <<>>
             /\ reqs[Len(reqs)].at = evalFailed)
    /\ [](\A k \in DOMAIN reqs : reqs[k].pid = spawned /\ reqs[k].eng = "live")
    /\ [][evalFailed # 0 =>
             \/ reqs' = reqs
             \/ /\ Len(earlier') = Len(earlier) + 1
                /\ reqs' = <<>>
                /\ pid' = 0
                /\ evalFailed' = 0]_vars

\* a call that failed on a request is followed by a call with a new engine
C17_Witness ==
    /\ earlier = <<"EngineError">>
    /\ pc = "wait_before"
    /\ pid = 2
    /\ Len(reqs) = 1

\* the game as read_game gives it
Parsed(p) == [p EXCEPT !.tokens = LegalPrefix(p.tokens)]

\* C18: what a call returns is given by its PGN, its colour and the answers
\* the engine gave in that call, whatever calls came before it.
C18_ResultOwesNothingToEarlierCalls ==
    Returned =>
        /\ appended = TrackedPlies(Parsed(pgn_str), me_white)
        /\ Len(ret.rows) = Len(appended)
        /\ Len(answered) = Len(appended)
        /\ \A j \in DOMAIN ret.rows :
              ret.rows[j] =
                  NewRecord(TrackedView(answered[j].before, me_white),
                            TrackedView(answered[j].after, me_white))

\* a second call, after one that returned, with one tracked move
C18_Witness ==
    /\ earlier = <<"done">>
    /\ pc = "done"
    /\ Len(game) = 2
    /\ Len(ret.rows) = 1

\* what a call with the arguments p and w returns, given the answers ans its
\* own engine gave on the tracked moves
ResultAlone(p, w, ans) ==
    DataFrame([j \in DOMAIN ans |->
                  NewRecord(TrackedView(ans[j].before, w),
                            TrackedView(ans[j].after, w))])

\* C19: two calls on different games running concurrently each have an engine
\* process, a board and a record list of their own: every request of a call
\* goes to the process that call started, never to the other call's, on the
\* position of the call's own board, and under every interleaving each call
\* returns what it returns alone: the frame given by its PGN, its colour and
\* its own engine's answers.
C19_ConcurrentRunsIndependent ==
    /\ (pid # 0 /\ peer.pid # 0) => pid # peer.pid
    /\ \A k \in DOMAIN reqs :
          /\ reqs[k].pid = pid
          /\ reqs[k].pid # peer.pid
          /\ reqs[k].eng = "live"
          /\ reqs[k].pos = k \div 2
    /\ \A k \in DOMAIN peer.reqs :
          /\ peer.reqs[k].pid = peer.pid
          /\ peer.reqs[k].pid # pid
          /\ peer.reqs[k].eng = "live"
          /\ peer.reqs[k].pos = k \div 2
    /\ Returned =>
          /\ Len(answered) = Len(TrackedPlies(Parsed(pgn_str), me_white))
          /\ ret = ResultAlone(pgn_str, me_white, answered)
    /\ peer.pc = "returned" =>
          /\ Len(peer.answered)
                 = Len(TrackedPlies(Parsed(peer.pgn_str), peer.me_white))
          /\ peer.ret = ResultAlone(peer.pgn_str, peer.me_white, peer.answered)

\* both calls have returned, the second started its engine first, each with
\* one record, and the two frames differ
C19_Witness ==
    /\ pc = "returned"
    /\ peer.pc = "returned"
    /\ peer.pid = 1
    /\ pid = 2
    /\ pgn_str # peer.pgn_str
    /\ Len(ret.rows) = 1
    /\ Len(peer.ret.rows) = 1
    /\ ret # peer.ret

Tracked == IF me_white THEN WHITE ELSE BLACK

\* ply j of the game being analysed is the tracked player's
TrackedAt(j) == SideAt(pgn_str.turn, j) = Tracked

C22_RecordIsDropOfOneMove ==
    /\ Len(records) = Len(appended)
    /\ Len(records) = Len(answered)
    /\ \A j \in DOMAIN records :
          LET r == records[j]
              i == appended[j]
          IN  /\ TrackedAt(i)
              /\ 2 * i <= Len(reqs)
              /\ reqs[2 * i - 1] = [at |-> i, phase |-> "before", pos |-> i - 1,
                                    pid |-> pid, eng |-> "live"]
              /\ reqs[2 * i] = [at |-> i, phase |-> "after", pos |-> i,
                                pid |-> pid, eng |-> "live"]
              /\ answered[j].before.turn = SideAt(pgn_str.turn, i)
              /\ answered[j].after.turn = SideAt(pgn_str.turn, i + 1)
              /\ r.eval_before = TrackedView(answered[j].before, me_white)
              /\ r.eval_after = TrackedView(answered[j].after, me_white)
              /\ r.eval_drop = r.eval_after - r.eval_before
              /\ r.category = classify(r.eval_drop)
    /\ Returned => ret.rows = records

\* the tracked player's second move, the game's third ply, goes from +0.40
\* to -0.40 and is recorded as a blunder of -0.80
C22_Witness ==
    /\ pc = "done"
    /\ me_white
    /\ appended = <<1, 3>>
    /\ records[2].eval_before = 4000
    /\ records[2].eval_after = 0 - 4000
    /\ records[2].eval_drop = 0 - 8000
    /\ records[2].category = "blunder"

\* C23: the first position sent to the engine is the game's starting
\* position; the position sent after a ply is one move further than the one
\* sent before it, and is the very position sent before the next ply; the
\* board is one move further at each iteration of the loop.
C23_ChainContinuous ==
    /\ reqs # <<>> =>
          /\ reqs[1].phase = "before"
          /\ reqs[1].at = 1
          /\ reqs[1].pos = 0
    /\ \A k \in 1..(Len(reqs) - 1) :
          IF reqs[k].phase = "before"
          THEN /\ reqs[k + 1].phase = "after"
               /\ reqs[k + 1].at = reqs[k].at
               /\ reqs[k + 1].pos = reqs[k].pos + 1
          ELSE /\ reqs[k + 1].phase = "before"
               /\ reqs[k + 1].at = reqs[k].at + 1
               /\ reqs[k + 1].pos = reqs[k].pos
    /\ pc \in {"loop", "wait_before", "push"} =>
          /\ board.ply = idx - 1
          /\ board.turn = SideAt(pgn_str.turn, idx)
    /\ pc \in {"after", "wait_after"} =>
          /\ board.ply = idx
          /\ board.turn = SideAt(pgn_str.turn, idx + 1)

\* the request before the second ply is on the position of the request after
\* the first
C23_Witness ==
    /\ pc = "wait_before"
    /\ idx = 2
    /\ Len(reqs) = 3
    /\ reqs[2].phase = "after"
    /\ reqs[2].pos = 1
    /\ reqs[3].phase = "before"
    /\ reqs[3].pos = 1

\* C24: a move whose delta is not negative is not penalised: its category is
\* brilliant, great or good, and the accuracy of the game is the one its
\* losing moves alone give (100 when it has none); the move is nevertheless
\* recorded, with its category, like every move of the tracked player.
C24_NonNegativeNeverPenalized ==
    /\ \A j \in DOMAIN records :
          records[j].eval_drop >= 0 =>
              records[j].category \in {"brilliant", "great", "good"}
    /\ Returned =>
          /\ Len(ret.rows) = Len(TrackedPlies(Parsed(pgn_str), me_white))
          /\ \A j \in DOMAIN ret.rows :
                ret.rows[j].category = classify(ret.rows[j].eval_drop)
    /\ (pc = "done" /\ ret.rows # <<>>) =>
          /\ acc_out.kind = "ok"
          /\ IF Losses(ret.rows) = <<>>
             THEN acc_out.num = 100 * acc_out.cnt * 10000
             ELSE acc_out = compute_accuracy(DataFrame(Losses(ret.rows)))

\* a game of the tracked player with a move of +0.80, recorded as brilliant,
\* and a move of -0.80: the accuracy is that of the losing move alone, 88
C24_Witness ==
    /\ pc = "done"
    /\ Len(ret.rows) = 2
    /\ ret.rows[1].eval_drop = 8000
    /\ ret.rows[1].category = "brilliant"
    /\ ret.rows[2].eval_drop = 0 - 8000
    /\ acc_out.num = 880000
    /\ acc_out.cnt = 1

\* the place of a category in the order
\* brilliant > great > good > inaccuracy > mistake > blunder
Tier(c) ==
    CASE c = "brilliant" -> 6
      [] c = "great" -> 5
      [] c = "good" -> 4
      [] c = "inaccuracy" -> 3
      [] c = "mistake" -> 2
      [] c = "blunder" -> 1
      [] OTHER -> 0

\* C25: classify is monotone: the category of a delta is the same as or
\* worse than the category of every larger delta, and the same as or better
\* than the category of every smaller one.
C25_ClassifyMonotone ==
    pc = "classified" =>
        /\ Tier(category) >= 1
        /\ \A d \in (0 - MaxDrop)..MaxDrop :
              /\ d >= eval_drop => Tier(classify(d)) >= Tier(category)
              /\ d <= eval_drop => Tier(classify(d)) <= Tier(category)

\* an inaccuracy, with mistakes below it and good moves above it
C25_Witness ==
    /\ pc = "classified"
    /\ eval_drop = 0 - 1000
    /\ category = "inaccuracy"
    /\ classify(eval_drop - 1000) = "mistake"
    /\ classify(eval_drop + 1000) = "good"

\* C26: when the engine answers or fails every request, a run ends: at the
\* end of the move list with a frame, or at the first error, which leaves the
\* call; a game of P plies takes at most 2 * P requests, and once the run
\* has ended no request follows.
C26_Terminates ==
    /\ <>Ended
    /\ [](Len(reqs) <= 2 * Len(pgn_str.tokens))
    /\ [](Returned => (idx = Len(game) + 1 /\ exc = "none"))
    /\ [](pc = "raised" => (exc # "none" /\ ret = NoFrame))
    /\ [][Ended => (reqs' = reqs /\ Ended')]_vars

\* a game of two plies ended by the failure of its fourth request
C26_Witness ==
    /\ pc = "raised"
    /\ Len(pgn_str.tokens) = 2
    /\ evalFailed = 2
    /\ Len(reqs) = 4

\* C27: whatever was loaded and run, the results shown as "Analysis Complete"
\* are those of the game now in game_data, computed by the most recent Run
\* Analysis, which succeeded.
C27_ShownResultsAreCurrent ==
    (Idle /\ Shown # NoResults) =>
        /\ hist.resultsOf = session_state.game_data
        /\ hist.lastRun = "ok"

\* C28: an exception of analyze_single_game or of compute_accuracy during Run
\* Analysis is caught and reported, and leaves analysis_results, game_data
\* and page as they were when the run began; analysis_results is written
\* only when both calls have succeeded, with the frame of that run and the
\* accuracy and rating computed from that frame.
C28_FailedRunWritesNothing ==
    /\ [](~Idle => session_state = hist.atStart)
    /\ [](pc = "reported" =>
             /\ session_state = hist.atStart
             /\ hist.lastRun = "failed"
             /\ \/ exc # "none"
                \/ acc_out.kind = "KeyError")
    /\ [](pc = "stored" =>
             /\ session_state.page = hist.atStart.page
             /\ session_state.game_data = hist.atStart.game_data
             /\ pgn_str = session_state.game_data
             /\ exc = "none"
             /\ ret = ResultAlone(pgn_str, me_white, answered)
             /\ compute_accuracy(ret).kind = "ok"
             /\ session_state.analysis_results =
                    [df_moves |-> ret,
                     accuracy |-> [num |-> compute_accuracy(ret).num,
                                   cnt |-> compute_accuracy(ret).cnt],
                     rating_equiv |-> compute_accuracy(ret).rating,
                     player |-> IF me_white THEN "white" ELSE "black"])
    /\ [][session_state'.analysis_results # session_state.analysis_results =>
             (pc = "done" /\ acc_out.kind = "ok" /\ pc' = "stored")]_vars

\* an analysis fails on an engine error after an earlier one has succeeded,
\* and the results of the earlier one are still in the session
C28_Witness ==
    /\ pc = "reported"
    /\ exc = "EngineError"
    /\ earlier = <<"done", "EngineError">>
    /\ session_state.analysis_results # NoResults
    /\ session_state.analysis_results.df_moves # ret

\* C29: fetch_games_for_user sends no request for a month whose file is
\* there and not empty, and writes no file for a month whose fetch gave no
\* games or failed: a file changes only by the save that follows a fetch
\* which gave games.  A run right after another over the same range sends
\* requests only for months the run before left without such a file.
C29_FetchOnlyMissingMonths ==
    /\ \A k \in DOMAIN fetch.sent :
          LET r == fetch.sent[k]
          IN  /\ r.had \in {"absent", "empty"}
              /\ fetch.before[r.run][r.month] \in {"absent", "empty"}
              /\ \A j \in DOMAIN fetch.sent :
                    (fetch.sent[j].run = r.run /\ fetch.sent[j].month = r.month)
                        => j = k
    /\ \A w \in fetch.wrote :
          \E k \in DOMAIN fetch.sent :
             /\ fetch.sent[k].run = w.run
             /\ fetch.sent[k].month = w.month
             /\ fetch.sent[k].got = "games"
    /\ \A m \in 1..MaxMonths :
          fetch.files[m] # fetch.before[1][m] =>
              \E w \in fetch.wrote : w.month = m

\* after a first run that saved month 1, got nothing for month 2 and found
\* month 3 there, the second run has skipped month 1 and asked for month 2
C29_Witness ==
    /\ fetch.run = 2
    /\ fetch.last = 3
    /\ fetch.pc = "done"
    /\ fetch.before[1] = <<"absent", "absent", "games">>
    /\ fetch.before[2] = <<"games", "absent", "games">>
    /\ Len(fetch.sent) = 3
    /\ fetch.sent[3] = [run |-> 2, month |-> 2, had |-> "absent",
                        got |-> "none"]

============================================================================
